---- MODULE Spec2Model ----
(***************************************************************************)
(* Model of the bi-encoder training pipeline of train_dense_encoder.py:    *)
(* the trainer state machine (construction / resume, epoch loop, gradient  *)
(* accumulation, validation, best-checkpoint selection, checkpoint         *)
(* persistence), the negative-pooling loss coordinator _calc_loss, the     *)
(* gather discipline of a group of workers, and the average-rank           *)
(* validation with its loop over the dev batches.                          *)
(***************************************************************************)
EXTENDS Integers, Sequences, FiniteSets, TLC

\* ------------------------------------------------------------------ bounds
MaxEpochs == 2      \* largest cfg.train.num_train_epochs explored
MaxIter == 2        \* largest train_iterator.max_iterations explored
MaxMetric == 2      \* metric values range over 0..MaxMetric
MaxRuns == 2        \* processes started one after the other (1 = no resume)
MaxRank == 1        \* largest cfg.local_rank explored
MaxWorld == 2       \* largest cfg.distributed_world_size explored
MaxQ == 2           \* most queries in a worker's batch
MaxP == 3           \* most candidate passages of a query in average-rank validation
MaxQs == 2          \* largest cfg.train.val_av_rank_max_qs explored
MaxDevBatches == 3  \* most batches the dev iterator yields

\* ------------------------------------------------------------- Python values
None == << >>

\* Python truthiness of a value that is None or a number
Truthy(x) == x # None /\ x # <<0>>

\* Python's  x or y  on such values
PyOr(x, y) == IF Truthy(x) THEN x ELSE y

Ceil(a, b) == (a + b - 1) \div b

BOOL == {TRUE, FALSE}

\* ---------------------------------------------------------------- state
VARIABLES
    cfg,                    \* the configuration of the current process
    run,                    \* number of the current process (1 = original run)
    pc,                     \* position of the trainer process
    start_epoch,            \* BiEncoderTrainer.start_epoch
    start_batch,            \* BiEncoderTrainer.start_batch
    scheduler_state,        \* BiEncoderTrainer.scheduler_state
    model_loaded,           \* model_to_load.load_state was called
    optimizer_loaded,       \* optimizer.load_state_dict was called
    saved_state,            \* the CheckpointState loaded by __init__, or NoState
    best_validation_result, \* BiEncoderTrainer.best_validation_result
    best_cp_name,           \* BiEncoderTrainer.best_cp_name
    scheduler,              \* the LR scheduler built by run_train
    eval_step,              \* run_train's eval_step
    epoch,                  \* run_train's loop variable
    i,                      \* _train_epoch's batch index
    data_iteration,         \* _train_epoch's data_iteration
    grads,                  \* micro-batches accumulated in the gradients
    optimizer,              \* optimizer.step() calls, and the micro-batches the last one applied
    files,                  \* checkpoint files in output_dir: name -> state
    val,                    \* record of the last validate_and_save call
    world,                  \* _calc_loss: cfg.distributed_world_size, cfg.local_rank per worker
    batch,                  \* _calc_loss: each worker's local batch
    loss_args,              \* _calc_loss: what each worker passes to loss_function.calc
    gather_calls,           \* _calc_loss: all_gather_list calls made by each worker
    scores,                 \* validate_average_rank: each worker's score rows and gold passages
    av_rank_out,            \* validate_average_rank: what each worker has computed
    enc,                    \* _encode_questions_and_passages: the loop over the dev batches
    wpc,                    \* worker group: position of each worker
    wepoch,                 \* worker group: each worker's epoch
    wi,                     \* worker group: each worker's batch index
    wdev,                   \* worker group: each worker's dev batch index in validate_nll
    wsave,                  \* worker group: the save flag of each worker's validation
    wbest,                  \* worker group: each worker's best_validation_result
    wwrites,                \* worker group: _save_checkpoint calls of each worker
    wlog                    \* worker group: the gather calls each worker has made

trainer == <<start_epoch, start_batch, scheduler_state, model_loaded,
             optimizer_loaded, saved_state, best_validation_result,
             best_cp_name>>
loop == <<scheduler, eval_step, epoch, i, data_iteration, grads, optimizer>>
lossvars == <<world, batch, loss_args, gather_calls>>
valvars == <<scores, av_rank_out, enc>>
distvars == <<wpc, wepoch, wi, wdev, wsave, wbest, wwrites, wlog>>
vars == <<cfg, run, pc, trainer, loop, files, val, lossvars, valvars, distvars>>

\* ------------------------------------------------------- checkpoint files
\* cfg.checkpoint_file_name + "." + str(epoch)  /  + "_best.cp"
EpochCpName(e) == <<"epoch", e>>
BestCpName == <<"best", 0>>

\* CheckpointState(model, optimizer_dict, scheduler_dict, offset, epoch, params)
CheckpointState(sched, offset, ep) ==
    [optimizer_dict |-> TRUE,
     scheduler_dict |-> [last_epoch |-> sched.last_epoch],
     offset |-> offset,
     epoch |-> ep]

\* torch.save(state, cp): the file named cp now holds state
TorchSave(fs, cp, state) ==
    [n \in DOMAIN fs \cup {cp} |-> IF n = cp THEN state ELSE fs[n]]

\* _save_checkpoint as it would be with the two names exchanged
SaveCheckpoint_NamesExchanged(fs, sched, ep, offset, best_model_found) ==
    LET cp == IF best_model_found THEN EpochCpName(ep) ELSE BestCpName
    IN [cp |-> cp, files |-> TorchSave(fs, cp, CheckpointState(sched, offset, ep))]

\* _save_checkpoint: the name of the file and the files afterwards
SaveCheckpoint(fs, sched, ep, offset, best_model_found) ==
    LET cp == IF ~best_model_found THEN EpochCpName(ep) ELSE BestCpName
    IN [cp |-> cp, files |-> TorchSave(fs, cp, CheckpointState(sched, offset, ep))]

\* _load_saved_state as it would be if the stored epoch were always taken
LoadSavedState_KeepsEpoch(c, st) ==
    LET ep == IF st.offset = 0 THEN st.epoch + 1 ELSE st.epoch
        load_opt == ~c.ignore_checkpoint_optimizer
    IN [start_epoch |-> ep,
        start_batch |-> 0,
        model_loaded |-> TRUE,
        optimizer_loaded |-> load_opt /\ st.optimizer_dict,
        scheduler_state |-> IF load_opt /\ st.scheduler_dict # None
                            THEN st.scheduler_dict ELSE None]

\* ------------------------------------------------------------- resume
\* _load_saved_state: the trainer fields it sets
LoadSavedState(c, st) ==
    LET ep == IF st.offset = 0 THEN st.epoch + 1 ELSE st.epoch
        load_opt == ~c.ignore_checkpoint_optimizer
    IN [start_epoch |-> IF c.ignore_checkpoint_offset THEN 0 ELSE ep,
        start_batch |-> 0,
        model_loaded |-> TRUE,
        optimizer_loaded |-> load_opt /\ st.optimizer_dict,
        scheduler_state |-> IF load_opt /\ st.scheduler_dict # None
                            THEN st.scheduler_dict ELSE None]

\* get_schedule_linear as called by run_train: a fresh LambdaLR, whose
\* last_epoch counts its own steps, with the steps shift of the saved state
GetSchedule(sstate) ==
    [last_epoch |-> 0,
     steps_shift |-> IF sstate # None THEN sstate.last_epoch ELSE 0]

\* save_cp as it would be if every worker saved
SaveCp_AnyWorker(c) == TRUE

\* ------------------------------------------------------ validate_and_save
\* save_cp = cfg.local_rank in [-1, 0]
SaveCp(c) == c.local_rank \in {-1, 0}

\* validate_nll divides by the number of dev batches
ValidateRaises(c) == c.dev_datasets /\ c.dev_batches = 0

\* the selection as it would be with  epoch > val_av_rank_start_epoch
ValidationLoss_AfterStartEpoch(c, ep, nll, av_rank, p30) ==
    IF ~c.dev_datasets
    THEN [src |-> "none", v |-> 0]
    ELSE LET p_at_30 == IF c.all_passages THEN <<p30>> ELSE None
         IN IF ep > c.val_av_rank_start_epoch
            THEN IF p_at_30 # None
                 THEN [src |-> "p@30", v |-> p_at_30[1]]
                 ELSE [src |-> "av_rank", v |-> av_rank]
            ELSE [src |-> "nll", v |-> nll]

\* the scalar used for best-model selection, with the signal it comes from
ValidationLoss(c, ep, nll, av_rank, p30) ==
    IF ~c.dev_datasets
    THEN [src |-> "none", v |-> 0]
    ELSE LET p_at_30 == IF c.all_passages THEN <<p30>> ELSE None
         IN IF ep >= c.val_av_rank_start_epoch
            THEN IF p_at_30 # None
                 THEN [src |-> "p@30", v |-> p_at_30[1]]
                 ELSE [src |-> "av_rank", v |-> av_rank]
            ELSE [src |-> "nll", v |-> nll]

\* the test as it would be if a tracked best of 0 were compared like any other
BestModelFound_ZeroIsABest(c, validation_loss, best) ==
    \/ best = None
    \/ /\ ~c.higher_is_better
       /\ validation_loss < best[1]
    \/ /\ c.higher_is_better
       /\ validation_loss > best[1]

\* the best_model_found test
BestModelFound(c, validation_loss, best) ==
    \/ /\ ~c.higher_is_better
       /\ validation_loss < PyOr(best, <<validation_loss + 1>>)[1]
    \/ /\ c.higher_is_better
       /\ validation_loss > PyOr(best, <<validation_loss - 1>>)[1]

\* whether _save_checkpoint is called
WritesCheckpoint(c, best_model_found) ==
    ~c.save_best_only \/ (c.save_best_only /\ best_model_found)

\* the start of validate_and_save as it would be without the reset
ResetBest_Never(c, ep, best) == best

\* best_validation_result after the reset at the start of validate_and_save
ResetBest(c, ep, best) ==
    IF ep = c.val_av_rank_start_epoch THEN None ELSE best

\* the test as it would be if the save argument were not looked at
Decides_IgnoresSave(c, save) == SaveCp(c)

\* if save_cp and save: the best-checkpoint decision is made
Decides(c, save) == SaveCp(c) /\ save

NoVal == [kind |-> "none", epoch |-> 0, iteration |-> 0, src |-> "none", loss |-> 0,
          prev |-> None, found |-> FALSE, cp |-> None, updated |-> FALSE]

\* validate_and_save(epoch, iteration, scheduler, all_passages, save):
\* the trainer's best_validation_result and best_cp_name, the files, and a
\* record of the call, afterwards
ValidateAndSave(c, best, cpname, fs, sched, ep, iteration, save, nll, av_rank, p30) ==
    LET prev == ResetBest(c, ep, best)
        m == ValidationLoss(c, ep, nll, av_rank, p30)
        validation_loss == m.v
        decide == Decides(c, save)
        best_model_found == decide /\ BestModelFound(c, validation_loss, prev)
        writes == decide /\ WritesCheckpoint(c, best_model_found)
        saved == SaveCheckpoint(fs, sched, ep, iteration,
                                c.save_best_only /\ best_model_found)
        cp_name == IF writes THEN saved.cp ELSE None
        updated == best_model_found /\ cp_name # None
    IN IF ValidateRaises(c)
       THEN [raised |-> TRUE, best |-> prev, cp_name |-> cpname, files |-> fs,
             val |-> NoVal]
       ELSE [raised |-> FALSE,
             best |-> IF updated THEN <<validation_loss>> ELSE prev,
             cp_name |-> IF updated THEN cp_name ELSE cpname,
             files |-> IF writes THEN saved.files ELSE fs,
             val |-> [kind |-> IF save THEN "end" ELSE "mid", epoch |-> ep,
                      iteration |-> iteration,
                      src |-> m.src, loss |-> validation_loss, prev |-> prev,
                      found |-> best_model_found, cp |-> cp_name,
                      updated |-> updated]]

\* ---------------------------------------------------------- the iterator
\* MultiSetDataIterator.get_iteration() while batch number n (from 0) of the
\* epoch is being processed: the number of batches yielded so far
GetIteration(n) == n + 1

\* ------------------------------------------------------------ the trainer
Metrics == 0..MaxMetric

\* the values validate_nll, validate_average_rank and validate_ask_ai_metrics
\* can return; a validation that is not run returns nothing (0 here)
NllValues(c) == IF c.dev_datasets THEN Metrics ELSE {0}
AvRankValues(c) == IF c.dev_datasets THEN Metrics ELSE {0}
P30Values(c) == IF c.dev_datasets /\ c.all_passages THEN Metrics ELSE {0}

\* the fields of a process that has not run __init__ yet
Fresh ==
    /\ pc = "start"
    /\ start_epoch = 0
    /\ start_batch = 0
    /\ scheduler_state = None
    /\ model_loaded = FALSE
    /\ optimizer_loaded = FALSE
    /\ saved_state = None
    /\ best_validation_result = None
    /\ best_cp_name = None
    /\ scheduler = GetSchedule(None)
    /\ eval_step = 0
    /\ epoch = 0
    /\ i = 0
    /\ data_iteration = 0
    /\ grads = 0
    /\ optimizer = [steps |-> 0, applied |-> 0]
    /\ val = NoVal

\* BiEncoderTrainer.__init__
Construct ==
    /\ pc = "start"
    /\ saved_state' = IF cfg.model_file # None THEN files[cfg.model_file] ELSE None
    /\ LET ld == LoadSavedState(cfg, saved_state')
       IN IF saved_state' # None
          THEN /\ start_epoch' = ld.start_epoch
               /\ start_batch' = ld.start_batch
               /\ model_loaded' = ld.model_loaded
               /\ optimizer_loaded' = ld.optimizer_loaded
               /\ scheduler_state' = ld.scheduler_state
          ELSE /\ start_epoch' = 0
               /\ start_batch' = 0
               /\ model_loaded' = FALSE
               /\ optimizer_loaded' = FALSE
               /\ scheduler_state' = None
    /\ best_validation_result' = None
    /\ best_cp_name' = None
    /\ pc' = "constructed"
    /\ UNCHANGED <<cfg, run, loop, files, val, lossvars, valvars, distvars>>

\* eval_step = math.ceil(updates_per_epoch / cfg.train.eval_per_epoch)
EvalStep(c) ==
    LET updates_per_epoch == c.max_iterations \div c.gradient_accumulation_steps
    IN Ceil(updates_per_epoch, c.eval_per_epoch)

\* run_train as it would be without the empty-data check
NoDataFound_Never(c) == FALSE

\* if max_iterations == 0: "No data found for training."
NoDataFound(c) == c.max_iterations = 0

\* run_train up to the epoch loop
RunTrain ==
    /\ pc = "constructed"
    /\ IF NoDataFound(cfg)
       THEN /\ pc' = "no_data"
            /\ UNCHANGED <<scheduler, eval_step, epoch>>
       ELSE /\ scheduler' = GetSchedule(scheduler_state)
            /\ eval_step' = EvalStep(cfg)
            /\ epoch' = start_epoch
            /\ pc' = "epoch_loop"
    /\ UNCHANGED <<cfg, run, trainer, i, data_iteration, grads, optimizer,
                   files, val, lossvars, valvars, distvars>>

\* for epoch in range(start_epoch, num_train_epochs): enter _train_epoch
EpochStart ==
    /\ pc = "epoch_loop"
    /\ epoch < cfg.num_train_epochs
    /\ i' = 0
    /\ data_iteration' = 0
    /\ pc' = "batch_loop"
    /\ UNCHANGED <<cfg, run, trainer, scheduler, eval_step, epoch, grads,
                   optimizer, files, val, lossvars, valvars, distvars>>

\* the epoch loop is over: "Training finished"
Finish ==
    /\ pc = "epoch_loop"
    /\ epoch >= cfg.num_train_epochs
    /\ pc' = "finished"
    /\ UNCHANGED <<cfg, run, trainer, loop, files, val, lossvars, valvars, distvars>>

\* the test as it would be if the step came with the first batch of a group
OptimizerStepDue_First(n, c) == n % c.gradient_accumulation_steps = 0

\* (i + 1) % cfg.train.gradient_accumulation_steps == 0, at batch index n
OptimizerStepDue(n, c) == (n + 1) % c.gradient_accumulation_steps = 0

\* one pass of the batch loop of _train_epoch: the backward pass adds the
\* batch to the gradients; a due step applies them (optimizer.step()), steps
\* the scheduler and resets them (zero_grad()); then the cadence test
TrainBatch ==
    /\ pc = "batch_loop"
    /\ i < cfg.max_iterations
    /\ LET di == GetIteration(i)
           step == OptimizerStepDue(i, cfg)
           sched == IF step
                    THEN [scheduler EXCEPT !.last_epoch = @ + 1]
                    ELSE scheduler
       IN /\ data_iteration' = di
          /\ grads' = IF step THEN 0 ELSE grads + 1
          /\ optimizer' = IF step
                          THEN [steps |-> optimizer.steps + 1, applied |-> grads + 1]
                          ELSE optimizer
          /\ scheduler' = sched
          /\ i' = i + 1
          /\ IF eval_step = 0
             THEN /\ pc' = "raised"
                  /\ UNCHANGED <<best_validation_result, best_cp_name, files, val>>
             ELSE IF di % eval_step = 0 /\ cfg.eval_during_epoch
             THEN \E nll \in NllValues(cfg), av_rank \in AvRankValues(cfg), p30 \in P30Values(cfg) :
                    LET r == ValidateAndSave(cfg, best_validation_result,
                                 best_cp_name, files, sched, epoch, di, FALSE,
                                 nll, av_rank, p30)
                    IN /\ best_validation_result' = r.best
                       /\ best_cp_name' = r.cp_name
                       /\ files' = r.files
                       /\ val' = r.val
                       /\ pc' = IF r.raised THEN "raised" ELSE "batch_loop"
             ELSE /\ pc' = "batch_loop"
                  /\ UNCHANGED <<best_validation_result, best_cp_name, files, val>>
    /\ UNCHANGED <<cfg, run, start_epoch, start_batch, scheduler_state,
                   model_loaded, optimizer_loaded, saved_state, eval_step,
                   epoch, lossvars, valvars, distvars>>

\* the end of _train_epoch: the validation with save=True
EpochEnd ==
    /\ pc = "batch_loop"
    /\ i >= cfg.max_iterations
    /\ \E nll \in NllValues(cfg), av_rank \in AvRankValues(cfg), p30 \in P30Values(cfg) :
         LET r == ValidateAndSave(cfg, best_validation_result, best_cp_name,
                      files, scheduler, epoch, data_iteration, TRUE,
                      nll, av_rank, p30)
         IN /\ best_validation_result' = r.best
            /\ best_cp_name' = r.cp_name
            /\ files' = r.files
            /\ val' = r.val
            /\ pc' = IF r.raised THEN "raised" ELSE "epoch_loop"
            /\ epoch' = IF r.raised THEN epoch ELSE epoch + 1
    /\ UNCHANGED <<cfg, run, start_epoch, start_batch, scheduler_state,
                   model_loaded, optimizer_loaded, saved_state, scheduler,
                   eval_step, i, data_iteration, grads, optimizer, lossvars, valvars,
                   distvars>>

\* the process ends (finished, aborted or preempted) and a new one is
\* started on the same output_dir, from one of the checkpoints or from none
Restart ==
    /\ run < MaxRuns
    /\ pc # "start"
    /\ run' = run + 1
    /\ \E mf \in DOMAIN files \cup {None}, io \in BOOL, ip \in BOOL :
         cfg' = [cfg EXCEPT !.model_file = mf,
                            !.ignore_checkpoint_offset = io,
                            !.ignore_checkpoint_optimizer = ip]
    /\ pc' = "start"
    /\ start_epoch' = 0
    /\ start_batch' = 0
    /\ scheduler_state' = None
    /\ model_loaded' = FALSE
    /\ optimizer_loaded' = FALSE
    /\ saved_state' = None
    /\ best_validation_result' = None
    /\ best_cp_name' = None
    /\ scheduler' = GetSchedule(None)
    /\ eval_step' = 0
    /\ epoch' = 0
    /\ i' = 0
    /\ data_iteration' = 0
    /\ grads' = 0
    /\ optimizer' = [steps |-> 0, applied |-> 0]
    /\ val' = NoVal
    /\ UNCHANGED <<files, lossvars, valvars, distvars>>

\* --------------------------------------------------------- configurations
\* no group of workers is under study
DistIdle ==
    /\ wpc = << >>
    /\ wepoch = << >>
    /\ wi = << >>
    /\ wdev = << >>
    /\ wsave = << >>
    /\ wbest = << >>
    /\ wwrites = << >>
    /\ wlog = << >>

\* no validate_average_rank call is under study
ValIdle ==
    /\ scores = << >>
    /\ av_rank_out = << >>
    /\ enc = << >>

\* no _calc_loss call is under study
LossIdle ==
    /\ world = [distributed_world_size |-> 1, local_rank |-> <<-1>>]
    /\ batch = << >>
    /\ loss_args = << >>
    /\ gather_calls = << >>

Cfg(lr, hib, sbo, dev, psg, db, vs, ne, gas, epe, ede, mi) ==
    [local_rank |-> lr, higher_is_better |-> hib, save_best_only |-> sbo,
     dev_datasets |-> dev, all_passages |-> psg, dev_batches |-> db,
     val_av_rank_start_epoch |-> vs, num_train_epochs |-> ne,
     gradient_accumulation_steps |-> gas, eval_per_epoch |-> epe,
     eval_during_epoch |-> ede, max_iterations |-> mi,
     model_file |-> None, ignore_checkpoint_offset |-> FALSE,
     ignore_checkpoint_optimizer |-> FALSE]

\* one run from a cold start, over the validation and checkpoint options
Init ==
    /\ cfg \in {Cfg(lr, hib, sbo, dev, psg, db, vs, ne, gas, 1, ede, mi) :
                  lr \in -1..MaxRank, hib \in BOOL, sbo \in BOOL, dev \in BOOL,
                  psg \in BOOL, db \in {0, 1}, vs \in 0..MaxEpochs,
                  ne \in {MaxEpochs}, gas \in {1, 2}, ede \in BOOL,
                  mi \in {0, MaxIter}}
    /\ run = 1
    /\ files = << >>
    /\ Fresh
    /\ LossIdle
    /\ ValIdle
    /\ DistIdle

Next == Construct \/ RunTrain \/ EpochStart \/ TrainBatch \/ EpochEnd \/ Finish

Spec == Init /\ [][Next]_vars

\* ------------------------------------------------- best-checkpoint claims
\* v is strictly better than the tracked best b in the configured direction
StrictlyBetter(c, v, b) == IF c.higher_is_better THEN v > b ELSE v < b

\* the last call was an end-of-epoch validation on the checkpoint-writing
\* worker, of a metric measured on the dev datasets
EndOfEpochOnWriter == val.kind = "end" /\ SaveCp(cfg) /\ cfg.dev_datasets

\* the metric of the last validation is a new best: none tracked, or strictly better
IsNewBest == val.prev = None \/ StrictlyBetter(cfg, val.loss, val.prev[1])

\* C1: at every end-of-epoch validation on the checkpoint-writing worker the
\* metric value becomes the tracked best if and only if no best is tracked
\* yet or the value is strictly better than the tracked best in the
\* configured direction; an equal or worse value never replaces it.
C1_StrictlyBetterOnly == EndOfEpochOnWriter => (val.updated <=> IsNewBest)

\* C4: a worker with local_rank >= 1 never calls _save_checkpoint and never
\* changes its best_cp_name, whatever metric values it observes.
C4_OnlyDesignatedWorkerSaves ==
    cfg.local_rank >= 1 =>
        /\ files = << >>
        /\ best_cp_name = None
        /\ val.cp = None
        /\ ~val.updated

C4_Witness ==
    /\ cfg.local_rank >= 1
    /\ cfg.dev_datasets
    /\ val.kind = "end"
    /\ val.epoch >= 1
    /\ val.loss = 0

\* C9: at every validation with dev datasets configured the scalar used for
\* best-model selection is p@30 when a passage corpus is supplied and
\* epoch >= val_av_rank_start_epoch, else the average rank when
\* epoch >= val_av_rank_start_epoch, else the NLL loss.
C9_MetricSelection ==
    (val.kind # "none" /\ cfg.dev_datasets) =>
        val.src = IF val.epoch < cfg.val_av_rank_start_epoch THEN "nll"
                  ELSE IF cfg.all_passages THEN "p@30" ELSE "av_rank"

C9_Witness ==
    /\ cfg.dev_datasets
    /\ cfg.all_passages
    /\ cfg.val_av_rank_start_epoch = 1
    /\ val.kind = "end"
    /\ val.epoch = 1
    /\ val.src = "p@30"

\* C10: with save_best_only an end-of-epoch validation writes a checkpoint
\* if and only if the epoch's metric is a new best; an epoch whose metric is
\* not strictly better than the tracked best writes no file and leaves
\* best_validation_result and best_cp_name unchanged.
C10_SaveBestOnly ==
    (EndOfEpochOnWriter /\ cfg.save_best_only) =>
        /\ (val.cp # None) <=> IsNewBest
        /\ ~IsNewBest => (~val.updated /\ best_validation_result = val.prev)

\* the names of the active policy: <basename>.<epoch> or <basename>_best.cp
PolicyNames(c) ==
    IF c.save_best_only THEN {BestCpName}
    ELSE {EpochCpName(e) : e \in 0..(c.num_train_epochs - 1)}

\* C11: within one run the two naming policies are never mixed: without
\* save_best_only every checkpoint written is named <basename>.<epoch>, also
\* for an epoch that is a new best, and with save_best_only every checkpoint
\* written is named <basename>_best.cp; best_cp_name is always None or the
\* name of a file written under the active policy.
C11_NamingPolicyNotMixed ==
    /\ DOMAIN files \subseteq PolicyNames(cfg)
    /\ val.cp # None =>
          val.cp = IF cfg.save_best_only THEN BestCpName ELSE EpochCpName(val.epoch)
    /\ best_cp_name # None =>
          (best_cp_name \in DOMAIN files /\ best_cp_name \in PolicyNames(cfg))

\* without save_best_only the second epoch is a new best and its checkpoint
\* is the per-epoch file, next to the first epoch's
C11_Witness ==
    /\ ~cfg.save_best_only
    /\ cfg.dev_datasets
    /\ val.kind = "end"
    /\ val.epoch = 1
    /\ val.prev # None
    /\ val.found
    /\ best_cp_name = EpochCpName(1)
    /\ DOMAIN files = {EpochCpName(0), EpochCpName(1)}

\* the process is about to run the end-of-epoch validation
AtEpochEnd == pc = "batch_loop" /\ i >= cfg.max_iterations

\* the epoch in which the tracked best value was recorded: the epoch stored
\* in the checkpoint written with it
BestEpoch == files[best_cp_name].epoch

\* C16: the tracked best value is cleared when validation runs in the epoch
\* equal to val_av_rank_start_epoch, so that the end-of-epoch validation of
\* that epoch always becomes the new best (on the worker that tracks one),
\* and no metric value recorded in an epoch before val_av_rank_start_epoch is
\* ever compared with a value observed in that epoch or later.
C16_ResetAtStartEpoch ==
    /\ (val.kind # "none" /\ val.epoch = cfg.val_av_rank_start_epoch) =>
          val.prev = None
    /\ (val.kind = "end" /\ val.epoch = cfg.val_av_rank_start_epoch /\ SaveCp(cfg)) =>
          /\ val.found
          /\ val.updated
          /\ best_validation_result = <<val.loss>>
          /\ best_cp_name = val.cp
    /\ (AtEpochEnd /\ SaveCp(cfg) /\ epoch >= cfg.val_av_rank_start_epoch
        /\ ResetBest(cfg, epoch, best_validation_result) # None) =>
          BestEpoch >= cfg.val_av_rank_start_epoch

\* a best had been recorded before the start epoch, and the worst metric
\* value at the end of the start epoch is the new best all the same
C16_Witness ==
    /\ cfg.dev_datasets
    /\ ~cfg.higher_is_better
    /\ cfg.val_av_rank_start_epoch = 1
    /\ SaveCp(cfg)
    /\ DOMAIN files # {}
    /\ val.kind = "end"
    /\ val.epoch = 1
    /\ val.loss = MaxMetric
    /\ best_validation_result = <<MaxMetric>>

\* C20: when the training iterator reports max_iterations = 0, run_train
\* aborts before training: no training step, no optimizer or scheduler step,
\* no validation and no checkpoint write occurs, and best_cp_name stays
\* unchanged.
C20_EmptyDataAborts ==
    cfg.max_iterations = 0 =>
        /\ pc \in {"start", "constructed", "no_data"}
        /\ i = 0
        /\ data_iteration = 0
        /\ grads = 0
        /\ optimizer.steps = 0
        /\ scheduler.last_epoch = 0
        /\ val = NoVal
        /\ files = << >>
        /\ best_cp_name = None
        /\ best_validation_result = None

\* run_train has returned on the empty-data check, dev datasets configured
C20_Witness ==
    /\ cfg.max_iterations = 0
    /\ pc = "no_data"
    /\ cfg.dev_datasets
    /\ SaveCp(cfg)

\* C24: a validation run during an epoch (validate_and_save with
\* save=False) never writes a checkpoint and never records a new best:
\* best_cp_name is unchanged and best_validation_result is never set to a
\* metric value by it, on every worker and for every metric value.
C24_MidEpochValidationWritesNothing ==
    [][(pc = "batch_loop" /\ i' = i + 1) =>
         /\ files' = files
         /\ best_cp_name' = best_cp_name
         /\ best_validation_result' \in {best_validation_result, None}
         /\ val'.kind = "mid" =>
              (val'.cp = None /\ ~val'.found /\ ~val'.updated)]_vars

\* the designated worker has measured, during an epoch, a value strictly
\* better than the tracked best, which stays
C24_Witness ==
    /\ SaveCp(cfg)
    /\ cfg.dev_datasets
    /\ ~cfg.higher_is_better
    /\ val.kind = "mid"
    /\ val.epoch = 1
    /\ val.loss = 0
    /\ val.prev = <<MaxMetric>>
    /\ best_validation_result = <<MaxMetric>>
    /\ best_cp_name # None

\* C27: when no dev datasets are configured the designated worker writes a
\* checkpoint at the end of every trained epoch, under either value of
\* save_best_only and either comparison direction, and best_cp_name after
\* each epoch is the checkpoint written for that epoch.
C27_NoDevWritesEveryEpoch ==
    (val.kind = "end" /\ ~cfg.dev_datasets /\ SaveCp(cfg)) =>
        /\ val.loss = 0
        /\ val.found
        /\ val.cp = IF cfg.save_best_only THEN BestCpName ELSE EpochCpName(val.epoch)
        /\ val.cp \in DOMAIN files
        /\ files[val.cp].epoch = val.epoch
        /\ best_cp_name = val.cp
        /\ \A e \in 0..val.epoch :
             cfg.save_best_only \/ EpochCpName(e) \in DOMAIN files

\* with save_best_only the second epoch, compared with a tracked best of 0,
\* has written the best file again
C27_Witness ==
    /\ ~cfg.dev_datasets
    /\ cfg.save_best_only
    /\ SaveCp(cfg)
    /\ val.kind = "end"
    /\ val.epoch = 1
    /\ val.prev = <<0>>
    /\ cfg.val_av_rank_start_epoch # 1
    /\ files[BestCpName].epoch = 1

\* the better of two metric values in the configured direction
Optimum(c, a, b) ==
    IF c.higher_is_better THEN (IF a > b THEN a ELSE b)
    ELSE (IF a < b THEN a ELSE b)

\* C28: whenever best_validation_result is not None at an end-of-epoch
\* comparison it holds the optimum (minimum when lower is better, maximum
\* when higher is better) of all end-of-epoch metric values the designated
\* worker has observed since the last reset, and best_cp_name names the
\* checkpoint written in the epoch that produced that value.  Stated on one
\* comparison: the value tracked before it being such an optimum, the value
\* tracked after it is the optimum of that value and the one just observed,
\* and best_cp_name names a checkpoint of the epoch that produced it.
C28_BestIsOptimum ==
    (EndOfEpochOnWriter /\ val.prev # None) =>
        /\ best_validation_result = <<Optimum(cfg, val.prev[1], val.loss)>>
        /\ best_cp_name \in DOMAIN files
        /\ (best_validation_result = <<val.loss>> /\ val.loss # val.prev[1]) =>
              files[best_cp_name].epoch = val.epoch
        /\ (best_validation_result # <<val.loss>>) =>
              files[best_cp_name].epoch < val.epoch

\* ------------------------------------------- stepping and validation cadence
\* total_updates = updates_per_epoch * cfg.train.num_train_epochs
TotalUpdates(c) ==
    (c.max_iterations \div c.gradient_accumulation_steps) * c.num_train_epochs

\* one run from a cold start without dev datasets, over the numbers of
\* epochs and batches, the accumulation factor and the validation cadence
InitSteps ==
    /\ cfg \in {Cfg(-1, FALSE, FALSE, FALSE, FALSE, 0, 0, ne, gas, epe, ede, mi) :
                  ne \in 1..MaxEpochs, gas \in {1, 2}, epe \in {1, 2},
                  ede \in BOOL, mi \in 0..(MaxIter + 1)}
    /\ run = 1
    /\ files = << >>
    /\ Fresh
    /\ LossIdle
    /\ ValIdle
    /\ DistIdle

SpecSteps == InitSteps /\ [][Next]_vars

\* C12: every optimizer step applies gradients accumulated from exactly
\* gradient_accumulation_steps micro-batches and is paired with exactly one
\* scheduler step followed by a gradient reset, at every step of every
\* epoch, the first step of an epoch that follows an epoch whose batch count
\* is not a multiple of gradient_accumulation_steps included.
C12_StepsApplyExactlyGas ==
    /\ optimizer.steps >= 1 => optimizer.applied = cfg.gradient_accumulation_steps
    /\ optimizer.steps = scheduler.last_epoch
    /\ (pc = "batch_loop" /\ i >= 1 /\ i % cfg.gradient_accumulation_steps = 0)
          => grads = 0

\* a is a multiple of b
Multiple(a, b) == \E k \in 0..a : a = k * b

\* this step is one pass of the batch loop
BatchDone == pc = "batch_loop" /\ i' = i + 1

\* this step ran a validation at the iteration counter it set
ValidatedNow ==
    /\ val'.kind = "mid"
    /\ val'.epoch = epoch
    /\ val'.iteration = data_iteration'

\* the part of C13 about the steps during an epoch
C13_AtEveryMultiple ==
    [][BatchDone => (ValidatedNow <=> Multiple(data_iteration', eval_step))]_vars

\* the part of C13 about the end of an epoch: the last batch is followed by
\* the end-of-epoch validation
C13_AfterLastBatch ==
    [][/\ (BatchDone /\ i' = cfg.max_iterations) => pc' = "batch_loop"
       /\ (pc = "batch_loop" /\ i' = i /\ pc' # pc) =>
             (val'.kind = "end" /\ val'.epoch = epoch
              /\ val'.iteration = data_iteration)]_vars

\* C13: during an epoch a validation is run at every step whose iteration
\* counter is a multiple of eval_step = ceil(updates_per_epoch /
\* eval_per_epoch), and one further validation is run unconditionally after
\* the last batch of the epoch.
C13_ValidationCadence ==
    [][/\ BatchDone => (ValidatedNow <=> Multiple(data_iteration', eval_step))
       /\ (BatchDone /\ i' = cfg.max_iterations) => pc' = "batch_loop"
       /\ (pc = "batch_loop" /\ i' = i /\ pc' # pc) =>
             (val'.kind = "end" /\ val'.epoch = epoch
              /\ val'.iteration = data_iteration)]_vars

\* C14: in a cold-start run that completes all epochs, the iterator yielding
\* max_iterations batches per epoch, the number of scheduler steps performed
\* equals total_updates = (max_iterations // gradient_accumulation_steps) *
\* num_train_epochs, the schedule length fixed before the first epoch.
C14_SchedulerStepsEqualTotal ==
    (pc = "finished" /\ saved_state = None) =>
        /\ scheduler.last_epoch = TotalUpdates(cfg)
        /\ scheduler.steps_shift = 0

\* a finished run whose epochs each leave a batch over
C14_Witness ==
    /\ pc = "finished"
    /\ saved_state = None
    /\ cfg.num_train_epochs >= 2
    /\ cfg.gradient_accumulation_steps = 2
    /\ cfg.max_iterations % 2 = 1
    /\ scheduler.last_epoch >= 2

\* C21: a worker whose dev shard yields zero batches completes validate_nll
\* and the enclosing validate_and_save without raising an error.
C21_ZeroDevBatchesCompletes ==
    [][(AtEpochEnd /\ cfg.dev_datasets /\ cfg.dev_batches = 0)
         => pc' = "epoch_loop"]_vars

\* ------------------------------------------------------------ resume
\* an original run and the runs resumed from its checkpoints
InitResume ==
    /\ cfg \in {Cfg(-1, FALSE, sbo, dev, FALSE, 1, 0, MaxEpochs, gas, 1, FALSE, mi) :
                  sbo \in BOOL, dev \in BOOL, gas \in {1, 2}, mi \in 1..MaxIter}
    /\ run = 1
    /\ files = << >>
    /\ Fresh
    /\ LossIdle
    /\ ValIdle
    /\ DistIdle

NextResume == Next \/ Restart

SpecResume == InitResume /\ [][NextResume]_vars

\* a process that has loaded a checkpoint written at the end of an epoch in
\* which at least one batch was trained
Resumed == pc # "start" /\ saved_state # None /\ saved_state.offset >= 1

\* run_train has built the schedule
ScheduleBuilt == pc \in {"epoch_loop", "batch_loop", "finished", "raised"}

\* C2: a run that loads, with ignore_checkpoint_offset off, the checkpoint
\* written at the end of epoch e starts training at epoch e+1, so that epoch
\* e is not trained again and no epoch is skipped.
C2_ResumeAtNextEpoch ==
    (Resumed /\ ~cfg.ignore_checkpoint_offset) =>
        /\ start_epoch = saved_state.epoch + 1
        /\ pc = "batch_loop" => epoch > saved_state.epoch

\* C3 (as claimed): with ignore_checkpoint_offset set the stored epoch and
\* offset, the stored optimizer state and the stored scheduler state are all
\* ignored and only the model weights are restored.
C3_IgnoreFlagIgnoresAll ==
    (Resumed /\ cfg.ignore_checkpoint_offset) =>
        /\ start_epoch = 0
        /\ start_batch = 0
        /\ model_loaded
        /\ ~optimizer_loaded
        /\ scheduler_state = None
        /\ ScheduleBuilt => scheduler.steps_shift = 0

\* C3 (amended): with ignore_checkpoint_offset set the stored epoch and
\* offset are ignored (start_epoch = 0, start_batch = 0) and the model
\* weights are restored; the stored optimizer state and scheduler state are
\* ignored exactly when ignore_checkpoint_optimizer is set too, and are
\* loaded otherwise, the schedule then being shifted by the stored step count.
C3_IgnoreOffsetOnly ==
    (Resumed /\ cfg.ignore_checkpoint_offset) =>
        /\ start_epoch = 0
        /\ start_batch = 0
        /\ model_loaded
        /\ optimizer_loaded <=> ~cfg.ignore_checkpoint_optimizer
        /\ scheduler_state =
             IF cfg.ignore_checkpoint_optimizer THEN None
             ELSE saved_state.scheduler_dict
        /\ ScheduleBuilt =>
             scheduler.steps_shift =
               IF cfg.ignore_checkpoint_optimizer THEN 0
               ELSE saved_state.scheduler_dict.last_epoch

C3_Witness ==
    /\ Resumed
    /\ cfg.ignore_checkpoint_offset
    /\ ~cfg.ignore_checkpoint_optimizer
    /\ saved_state.epoch >= 1
    /\ pc = "batch_loop"
    /\ epoch = 0
    /\ scheduler.steps_shift >= 1

\* C15: in a run resumed from a checkpoint with the scheduler state loaded,
\* the steps shift taken from the checkpoint plus the number of scheduler
\* steps the resumed run has performed never exceeds total_updates =
\* updates_per_epoch * num_train_epochs, whatever the ignore_checkpoint_offset
\* and ignore_checkpoint_optimizer flags.
C15_ShiftPlusStepsWithinTotal ==
    (saved_state # None /\ scheduler_state # None /\ ScheduleBuilt) =>
        scheduler.steps_shift + scheduler.last_epoch <= TotalUpdates(cfg)

\* the part of C15 with the stored offset in use
C15_WithOffsetInUse ==
    (saved_state # None /\ scheduler_state # None /\ ScheduleBuilt
     /\ ~cfg.ignore_checkpoint_offset) =>
        scheduler.steps_shift + scheduler.last_epoch <= TotalUpdates(cfg)

\* the trainer is one sequential process, which keeps running
SpecStepsFair == InitSteps /\ [][Next]_vars /\ WF_vars(Next)

\* the files written or overwritten by this step
Written == {n \in DOMAIN files' : n \notin DOMAIN files \/ files'[n] # files[n]}

\* the part of C23 about the order of the epochs, their validations and
\* their checkpoints
C23_EpochsInOrder ==
    [][/\ (pc = "constructed" /\ pc' = "epoch_loop") => epoch' = start_epoch
       /\ (pc # "constructed" /\ epoch' # epoch) =>
             (AtEpochEnd /\ epoch' = epoch + 1)
       /\ (pc = "batch_loop" /\ i' = i + 1) =>
             (epoch \in start_epoch..(cfg.num_train_epochs - 1) /\ epoch' = epoch)
       /\ (AtEpochEnd /\ pc' = "epoch_loop") =>
             (val'.kind = "end" /\ val'.epoch = epoch /\ epoch' = epoch + 1)
       /\ (val'.kind = "end" /\ val' # val) => AtEpochEnd
       /\ Written # {} =>
             (AtEpochEnd /\ val'.kind = "end" /\ val'.epoch = epoch
              /\ \A n \in Written : files'[n].epoch = epoch)
       /\ pc' = "finished" => epoch' >= cfg.num_train_epochs]_vars

\* C23: run_train trains the epochs start_epoch, ..., num_train_epochs-1 in
\* increasing order, each exactly once; for each epoch e exactly one
\* checkpoint-eligible validation (save=True) happens, after the last batch
\* of epoch e and before the first batch of epoch e+1, and any checkpoint
\* recording epoch e is written inside that validation; the run (of a
\* non-empty training set) then reaches finished.
C23_EpochsOnceThenFinished ==
    /\ C23_EpochsInOrder
    /\ (cfg.max_iterations >= 1) => <>(pc = "finished")

\* C26: whenever run_train passes the empty-data check (max_iterations >= 1)
\* eval_step is at least 1, so that the validation-cadence test in the
\* training loop never divides by zero, in particular when
\* 1 <= max_iterations < gradient_accumulation_steps.
C26_EvalStepAtLeastOne ==
    /\ (cfg.max_iterations >= 1 /\ ScheduleBuilt) => eval_step >= 1
    /\ pc # "raised"

\* ------------------------------------------------------------------ main
\* the start-up check as it would be if it rejected nothing
ConfigInvalid_Never(c) == FALSE

\* if cfg.train.gradient_accumulation_steps < 1: raise ValueError
ConfigInvalid(c) == c.gradient_accumulation_steps < 1

\* main up to the construction of the trainer
Main ==
    /\ pc = "main"
    /\ pc' = IF ConfigInvalid(cfg) THEN "config_error" ELSE "start"
    /\ UNCHANGED <<cfg, run, trainer, loop, files, val, lossvars, valvars,
                   distvars>>

\* a checkpoint of an earlier training, given as cfg.model_file
GivenCpName == <<"given", 0>>

GivenFiles ==
    [n \in {GivenCpName} |->
       CheckpointState([last_epoch |-> 1, steps_shift |-> 0], 1, 0)]

\* a process at the entry of main, over valid and invalid accumulation
\* factors, with or without a checkpoint to load
InitMain ==
    /\ cfg \in {[Cfg(-1, FALSE, sbo, FALSE, FALSE, 0, 0, MaxEpochs, gas, 1, FALSE, mi)
                   EXCEPT !.model_file = mf] :
                  sbo \in BOOL, gas \in 0..2, mi \in 0..MaxIter,
                  mf \in {None, GivenCpName}}
    /\ run = 1
    /\ files = GivenFiles
    /\ pc = "main"
    /\ start_epoch = 0
    /\ start_batch = 0
    /\ scheduler_state = None
    /\ model_loaded = FALSE
    /\ optimizer_loaded = FALSE
    /\ saved_state = None
    /\ best_validation_result = None
    /\ best_cp_name = None
    /\ scheduler = GetSchedule(None)
    /\ eval_step = 0
    /\ epoch = 0
    /\ i = 0
    /\ data_iteration = 0
    /\ grads = 0
    /\ optimizer = [steps |-> 0, applied |-> 0]
    /\ val = NoVal
    /\ LossIdle
    /\ ValIdle
    /\ DistIdle

NextMain == Main \/ Next

SpecMain == InitMain /\ [][NextMain]_vars

\* C22: a configuration with gradient_accumulation_steps < 1 is rejected
\* with an error at startup, before the trainer is constructed: no
\* checkpoint is loaded, no data is loaded, no training step runs and no
\* checkpoint is written.
C22_InvalidConfigRejected ==
    cfg.gradient_accumulation_steps < 1 =>
        /\ pc \in {"main", "config_error"}
        /\ saved_state = None
        /\ ~model_loaded
        /\ ~optimizer_loaded
        /\ i = 0
        /\ data_iteration = 0
        /\ grads = 0
        /\ optimizer.steps = 0
        /\ val = NoVal
        /\ files = GivenFiles

\* the configuration with a checkpoint to load has been rejected
C22_Witness ==
    /\ cfg.gradient_accumulation_steps < 1
    /\ cfg.model_file = GivenCpName
    /\ cfg.max_iterations >= 1
    /\ pc = "config_error"

\* ------------------------------------------------------------ _calc_loss
\* A vector is known by the worker whose encoder produced it, its place in
\* that worker's batch and whether it carries gradient.
Vec(r, j, g) == [owner |-> r, j |-> j, grad |-> g]

\* what one sample contributes to the passages of a batch: its positive
\* passage, then o other negatives, then h hard negatives (<<o, h>>): a
\* sample with no negatives, and one with 1 other and 2 hard negatives
SampleShapes == {<<0, 0>>, <<1, 2>>}

RECURSIVE CtxBefore(_, _)
\* number of passages of the samples before sample k of a batch
CtxBefore(shapes, k) ==
    IF k = 1 THEN 0
    ELSE CtxBefore(shapes, k - 1) + 1 + shapes[k - 1][1] + shapes[k - 1][2]

\* the local batch of worker r as the model's forward pass hands it to
\* _calc_loss: local_q_vector, local_ctx_vectors (gradient-tracked),
\* positive indices and hard-negative indices (0-based, into the passages)
LocalBatch(r, shapes) ==
    LET n == Len(shapes)
        nctx == CtxBefore(shapes, n + 1)
    IN [q |-> [k \in 1..n |-> Vec(r, k, TRUE)],
        ctx |-> [j \in 1..nctx |-> Vec(r, j, TRUE)],
        positive_idx |-> [k \in 1..n |-> CtxBefore(shapes, k)],
        hard_negatives |->
            [k \in 1..n |->
               [h \in 1..shapes[k][2] |->
                  CtxBefore(shapes, k) + shapes[k][1] + h]]]

\* the copy as it would be without detach_()
Detached_KeepsGrad(t) == t

\* torch.empty_like(t).cpu().copy_(t).detach_(): a copy without gradient
Detached(t) == [k \in 1..Len(t) |-> [t[k] EXCEPT !.grad = FALSE]]

\* the item a worker contributes to all_gather_list
ToSend(b) ==
    [q |-> Detached(b.q), ctx |-> Detached(b.ctx),
     positive_idx |-> b.positive_idx, hard_negatives |-> b.hard_negatives]

\* all_gather_list: every worker's item, in rank order
AllGatherList(bs) == [r \in 1..Len(bs) |-> ToSend(bs[r])]

\* the re-basing as it would be if the running offset were not added
Rebase_NoOffset(idxs, total_ctxs) == idxs

Rebase(idxs, total_ctxs) == [k \in 1..Len(idxs) |-> idxs[k] + total_ctxs]

RebaseAll(lists, total_ctxs) ==
    [k \in 1..Len(lists) |-> Rebase(lists[k], total_ctxs)]

RECURSIVE Pool(_, _, _, _)
\* the loop over the gathered items, after the first n of them
Pool(items, local, local_rank, n) ==
    IF n = 0
    THEN [q |-> << >>, ctx |-> << >>, positive_idx |-> << >>,
          hard_negatives |-> << >>, total_ctxs |-> 0]
    ELSE LET p == Pool(items, local, local_rank, n - 1)
             item == items[n]
             idx == n - 1
             use == IF idx # local_rank THEN item ELSE local
         IN [q |-> p.q \o use.q,
             ctx |-> p.ctx \o use.ctx,
             positive_idx |->
                 p.positive_idx \o Rebase(use.positive_idx, p.total_ctxs),
             hard_negatives |->
                 p.hard_negatives \o RebaseAll(use.hard_negatives, p.total_ctxs),
             total_ctxs |-> p.total_ctxs + Len(item.ctx)]

\* cfg.distributed_world_size or 1   (0 stands for an unset value)
WorldSize(w) == IF w.distributed_world_size = 0 THEN 1 ELSE w.distributed_world_size

\* _calc_loss as it would be if a single worker gathered too
CalcLoss_AlwaysGathers(w, bs, r) ==
    LET local == bs[r]
        p == Pool(AllGatherList(bs), local, w.local_rank[r], Len(bs))
    IN [q |-> p.q, ctx |-> p.ctx, positive_idx |-> p.positive_idx,
        hard_negatives |-> p.hard_negatives, gathers |-> 1]

\* _calc_loss on the worker at place r (from 1): the arguments of
\* loss_function.calc, and the number of all_gather_list calls made
CalcLoss(w, bs, r) ==
    LET local == bs[r]
    IN IF WorldSize(w) > 1
       THEN LET p == Pool(AllGatherList(bs), local, w.local_rank[r], Len(bs))
            IN [q |-> p.q, ctx |-> p.ctx, positive_idx |-> p.positive_idx,
                hard_negatives |-> p.hard_negatives, gathers |-> 1]
       ELSE [q |-> local.q, ctx |-> local.ctx,
             positive_idx |-> local.positive_idx,
             hard_negatives |-> local.hard_negatives, gathers |-> 0]

Pending == [q |-> << >>, ctx |-> << >>, positive_idx |-> << >>,
            hard_negatives |-> << >>, gathers |-> -1]

\* one training step's _calc_loss on worker r
DoCalcLoss(r) ==
    /\ loss_args[r] = Pending
    /\ LET out == CalcLoss(world, batch, r)
       IN /\ loss_args' = [loss_args EXCEPT ![r] = out]
          /\ gather_calls' = [gather_calls EXCEPT ![r] = @ + out.gathers]
    /\ UNCHANGED <<cfg, run, pc, trainer, loop, files, val, world, batch,
                   valvars, distvars>>

ShapeSeqs == UNION {[1..n -> SampleShapes] : n \in 1..MaxQ}

\* the worlds: unset (0) or 1 process with local_rank -1 or 0, or k > 1
\* processes with local_rank 0..k-1
Worlds ==
    {[distributed_world_size |-> k, local_rank |-> <<lr>>] :
        k \in {0, 1}, lr \in {-1, 0}}
    \cup {[distributed_world_size |-> k, local_rank |-> [r \in 1..k |-> r - 1]] :
            k \in 2..MaxWorld}

TrainerIdle ==
    /\ cfg = Cfg(-1, FALSE, FALSE, FALSE, FALSE, 0, 0, 0, 1, 1, FALSE, 0)
    /\ run = 1
    /\ files = << >>
    /\ Fresh

InitLoss ==
    /\ TrainerIdle
    /\ ValIdle
    /\ DistIdle
    /\ world \in Worlds
    /\ \E shapes \in [1..WorldSize(world) -> ShapeSeqs] :
         batch = [r \in 1..WorldSize(world) |-> LocalBatch(r - 1, shapes[r])]
    /\ loss_args = [r \in 1..WorldSize(world) |-> Pending]
    /\ gather_calls = [r \in 1..WorldSize(world) |-> 0]

NextLoss == \E r \in 1..WorldSize(world) : DoCalcLoss(r)

SpecLoss == InitLoss /\ [][NextLoss]_vars

\* ------------------------------------------------------ _calc_loss claims
Workers == 1..WorldSize(world)

Called(r) == loss_args[r] # Pending

\* number of passages supplied by the workers at places before r
RECURSIVE CtxBelow(_)
CtxBelow(r) == IF r = 1 THEN 0 ELSE CtxBelow(r - 1) + Len(batch[r - 1].ctx)

\* number of queries supplied by the workers at places before r
RECURSIVE QBelow(_)
QBelow(r) == IF r = 1 THEN 0 ELSE QBelow(r - 1) + Len(batch[r - 1].q)

\* the same vector, whatever its gradient tracking
SameVec(a, b) == a.owner = b.owner /\ a.j = b.j

\* C6: with world_size = k > 1, on every worker the global passage pool is
\* the concatenation of all workers' passage blocks in rank order, its length
\* is the sum of the local passage counts, every positive and hard-negative
\* index of worker w is re-based by the passage count of the workers below
\* w and points at the passage w supplied, and the query list and the
\* positive-index list have equal length and are aligned in rank order.
C6_GlobalPool ==
    \A r \in Workers : (WorldSize(world) > 1 /\ Called(r)) =>
        LET out == loss_args[r]
            k == WorldSize(world)
        IN /\ Len(out.ctx) = CtxBelow(k + 1)
           /\ Len(out.q) = QBelow(k + 1)
           /\ Len(out.positive_idx) = Len(out.q)
           /\ Len(out.hard_negatives) = Len(out.q)
           /\ \A w \in Workers :
                /\ \A j \in 1..Len(batch[w].ctx) :
                     SameVec(out.ctx[CtxBelow(w) + j], batch[w].ctx[j])
                /\ \A q \in 1..Len(batch[w].q) :
                     /\ SameVec(out.q[QBelow(w) + q], batch[w].q[q])
                     /\ out.positive_idx[QBelow(w) + q] =
                          batch[w].positive_idx[q] + CtxBelow(w)
                     /\ SameVec(out.ctx[out.positive_idx[QBelow(w) + q] + 1],
                                batch[w].ctx[batch[w].positive_idx[q] + 1])
                     /\ Len(out.hard_negatives[QBelow(w) + q]) =
                          Len(batch[w].hard_negatives[q])
                     /\ \A h \in 1..Len(batch[w].hard_negatives[q]) :
                          /\ out.hard_negatives[QBelow(w) + q][h] =
                               batch[w].hard_negatives[q][h] + CtxBelow(w)
                          /\ SameVec(
                               out.ctx[out.hard_negatives[QBelow(w) + q][h] + 1],
                               batch[w].ctx[batch[w].hard_negatives[q][h] + 1])

\* the top worker has pooled batches of different sizes, hard negatives included
C6_Witness ==
    /\ WorldSize(world) > 1
    /\ Called(WorldSize(world))
    /\ Len(batch[1].ctx) > Len(batch[2].ctx)
    /\ Len(batch[2].ctx) > 1
    /\ Len(batch[WorldSize(world)].hard_negatives[1]) > 0
    /\ loss_args[WorldSize(world)].positive_idx[Len(loss_args[WorldSize(world)].q)]
         > Len(batch[1].ctx)

C8_SingleWorkerIsLocal ==
    \A r \in Workers : (WorldSize(world) = 1 /\ Called(r)) =>
        LET out == loss_args[r]
            p == Pool(AllGatherList(batch), batch[r], 0, 1)
        IN /\ out.gathers = 0
           /\ gather_calls[r] = 0
           /\ out.q = batch[r].q
           /\ out.ctx = batch[r].ctx
           /\ out.positive_idx = batch[r].positive_idx
           /\ out.hard_negatives = batch[r].hard_negatives
           /\ out.q = p.q
           /\ out.ctx = p.ctx
           /\ out.positive_idx = p.positive_idx
           /\ out.hard_negatives = p.hard_negatives

C8_Witness ==
    /\ world.distributed_world_size = 0
    /\ world.local_rank[1] = -1
    /\ Called(1)
    /\ Len(batch[1].q) > 1
    /\ Len(batch[1].hard_negatives[1]) > 0

\* ------------------------------------------------------- a group of workers
\* Every worker runs run_train on the same configuration and the same
\* number of train and dev batches; all_gather_list is their only meeting
\* point: a call returns once every worker has made its call of that number.

\* the configuration as worker r sees it
WorkerCfg(r) == [cfg EXCEPT !.local_rank = world.local_rank[r]]

\* worker r calls all_gather_list for the logical step tag
EnterGather(r, tag) == wlog' = [wlog EXCEPT ![r] = Append(@, tag)]

\* worker r's pending all_gather_list call can return
GatherComplete(r) == \A w \in Workers : Len(wlog[w]) >= Len(wlog[r])

\* run_train up to the epoch loop (cold start)
DRunTrain(r) ==
    /\ wpc[r] = "run"
    /\ wpc' = [wpc EXCEPT ![r] = IF cfg.max_iterations = 0 THEN "no_data" ELSE "epoch"]
    /\ UNCHANGED <<wepoch, wi, wdev, wsave, wbest, wwrites, wlog>>

\* the epoch loop: enter _train_epoch, or finish
DEpoch(r) ==
    /\ wpc[r] = "epoch"
    /\ IF wepoch[r] < cfg.num_train_epochs
       THEN /\ wi' = [wi EXCEPT ![r] = 0]
            /\ wpc' = [wpc EXCEPT ![r] = "batch"]
       ELSE /\ wpc' = [wpc EXCEPT ![r] = "finished"]
            /\ UNCHANGED wi
    /\ UNCHANGED <<wepoch, wdev, wsave, wbest, wwrites, wlog>>

\* the batch loop: the forward pass of the next batch calls _calc_loss, which
\* gathers; after the last batch validate_and_save(save=True) is called
DBatch(r) ==
    /\ wpc[r] = "batch"
    /\ IF wi[r] < cfg.max_iterations
       THEN /\ EnterGather(r, <<"train", wepoch[r], wi[r]>>)
            /\ wpc' = [wpc EXCEPT ![r] = "train_gather"]
            /\ UNCHANGED wsave
       ELSE /\ wsave' = [wsave EXCEPT ![r] = TRUE]
            /\ wpc' = [wpc EXCEPT ![r] = "validate"]
            /\ UNCHANGED wlog
    /\ UNCHANGED <<wepoch, wi, wdev, wbest, wwrites>>

\* the gather of a training batch returns: the rest of the loop body, with
\* the validation-cadence test
DTrained(r) ==
    /\ wpc[r] = "train_gather"
    /\ GatherComplete(r)
    /\ LET di == GetIteration(wi[r])
       IN IF EvalStep(cfg) = 0
          THEN /\ wpc' = [wpc EXCEPT ![r] = "raised"]
               /\ UNCHANGED <<wi, wsave>>
          ELSE /\ wi' = [wi EXCEPT ![r] = @ + 1]
               /\ IF di % EvalStep(cfg) = 0 /\ cfg.eval_during_epoch
                  THEN /\ wsave' = [wsave EXCEPT ![r] = FALSE]
                       /\ wpc' = [wpc EXCEPT ![r] = "validate"]
                  ELSE /\ wpc' = [wpc EXCEPT ![r] = "batch"]
                       /\ UNCHANGED wsave
    /\ UNCHANGED <<wepoch, wdev, wbest, wwrites, wlog>>

\* validate_and_save begins: the reset of the best, then validate_nll if
\* there are dev datasets
DValidate(r) ==
    /\ wpc[r] = "validate"
    /\ wbest' = [wbest EXCEPT ![r] = ResetBest(WorkerCfg(r), wepoch[r], @)]
    /\ wdev' = [wdev EXCEPT ![r] = 0]
    /\ wpc' = [wpc EXCEPT ![r] = IF cfg.dev_datasets THEN "nll" ELSE "decide"]
    /\ UNCHANGED <<wepoch, wi, wsave, wwrites, wlog>>

\* validate_nll: the forward pass of the next dev batch gathers; after the
\* loop the loss is divided by the number of batches
DNll(r) ==
    /\ wpc[r] = "nll"
    /\ IF wdev[r] < cfg.dev_batches
       THEN /\ EnterGather(r, <<"nll", wepoch[r], wi[r], wdev[r]>>)
            /\ wpc' = [wpc EXCEPT ![r] = "nll_gather"]
       ELSE /\ wpc' = [wpc EXCEPT ![r] =
                         IF ValidateRaises(cfg) THEN "raised" ELSE "av_rank"]
            /\ UNCHANGED wlog
    /\ UNCHANGED <<wepoch, wi, wdev, wsave, wbest, wwrites>>

\* the gather of a dev batch returns
DNllDone(r) ==
    /\ wpc[r] = "nll_gather"
    /\ GatherComplete(r)
    /\ wdev' = [wdev EXCEPT ![r] = @ + 1]
    /\ wpc' = [wpc EXCEPT ![r] = "nll"]
    /\ UNCHANGED <<wepoch, wi, wsave, wbest, wwrites, wlog>>

\* validate_average_rank: the local ranks are computed, then gathered
DAvRank(r) ==
    /\ wpc[r] = "av_rank"
    /\ EnterGather(r, <<"av_rank", wepoch[r], wi[r]>>)
    /\ wpc' = [wpc EXCEPT ![r] = "av_rank_gather"]
    /\ UNCHANGED <<wepoch, wi, wdev, wsave, wbest, wwrites>>

\* the gather of the rank statistics returns
DAvRankDone(r) ==
    /\ wpc[r] = "av_rank_gather"
    /\ GatherComplete(r)
    /\ wpc' = [wpc EXCEPT ![r] = "decide"]
    /\ UNCHANGED <<wepoch, wi, wdev, wsave, wbest, wwrites, wlog>>

\* the rest of validate_and_save: the best-checkpoint decision and the
\* checkpoint, then back to the batch loop or on to the next epoch
DDecide(r) ==
    /\ wpc[r] = "decide"
    /\ \E nll \in NllValues(cfg), av_rank \in AvRankValues(cfg), p30 \in P30Values(cfg) :
         LET c == WorkerCfg(r)
             validation_loss == ValidationLoss(c, wepoch[r], nll, av_rank, p30).v
             decide == Decides(c, wsave[r])
             best_model_found == decide /\ BestModelFound(c, validation_loss, wbest[r])
             writes == decide /\ WritesCheckpoint(c, best_model_found)
         IN /\ wwrites' = [wwrites EXCEPT ![r] = IF writes THEN @ + 1 ELSE @]
            /\ wbest' = [wbest EXCEPT ![r] =
                           IF best_model_found /\ writes THEN <<validation_loss>> ELSE @]
    /\ IF wsave[r]
       THEN /\ wepoch' = [wepoch EXCEPT ![r] = @ + 1]
            /\ wpc' = [wpc EXCEPT ![r] = "epoch"]
       ELSE /\ wpc' = [wpc EXCEPT ![r] = "batch"]
            /\ UNCHANGED wepoch
    /\ UNCHANGED <<wi, wdev, wsave, wlog>>

\* what a worker of the group leaves alone
GroupFrame ==
    UNCHANGED <<cfg, run, pc, trainer, loop, files, val, lossvars, valvars>>

WorkerStep(r) ==
    /\ \/ DRunTrain(r) \/ DEpoch(r) \/ DBatch(r) \/ DTrained(r) \/ DValidate(r)
       \/ DNll(r) \/ DNllDone(r) \/ DAvRank(r) \/ DAvRankDone(r) \/ DDecide(r)
    /\ GroupFrame

InitDist ==
    /\ cfg \in {Cfg(0, hib, sbo, dev, FALSE, db, 0, MaxEpochs, gas, 1, ede, mi) :
                  hib \in BOOL, sbo \in BOOL, dev \in BOOL, db \in {0, 1},
                  gas \in {1, 2}, ede \in BOOL, mi \in {0, 1, MaxIter}}
    /\ run = 1
    /\ files = << >>
    /\ Fresh
    /\ world \in {w \in Worlds : w.distributed_world_size > 1}
    /\ batch = << >>
    /\ loss_args = << >>
    /\ gather_calls = << >>
    /\ ValIdle
    /\ wpc = [r \in Workers |-> "run"]
    /\ wepoch = [r \in Workers |-> 0]
    /\ wi = [r \in Workers |-> 0]
    /\ wdev = [r \in Workers |-> 0]
    /\ wsave = [r \in Workers |-> FALSE]
    /\ wbest = [r \in Workers |-> None]
    /\ wwrites = [r \in Workers |-> 0]
    /\ wlog = [r \in Workers |-> << >>]

NextDist ==
    \/ \E r \in Workers : DRunTrain(r) /\ GroupFrame
    \/ \E r \in Workers : DEpoch(r) /\ GroupFrame
    \/ \E r \in Workers : DBatch(r) /\ GroupFrame
    \/ \E r \in Workers : DTrained(r) /\ GroupFrame
    \/ \E r \in Workers : DValidate(r) /\ GroupFrame
    \/ \E r \in Workers : DNll(r) /\ GroupFrame
    \/ \E r \in Workers : DNllDone(r) /\ GroupFrame
    \/ \E r \in Workers : DAvRank(r) /\ GroupFrame
    \/ \E r \in Workers : DAvRankDone(r) /\ GroupFrame
    \/ \E r \in Workers : DDecide(r) /\ GroupFrame

\* every worker is a process of its own, which keeps running
SpecDist ==
    /\ InitDist
    /\ [][NextDist]_vars
    /\ \A r \in 1..MaxWorld : WF_vars(r \in Workers /\ WorkerStep(r))

\* ------------------------------------------------------- gather discipline
\* run_train has returned on worker r
Returned(r) == wpc[r] \in {"finished", "no_data"}

\* any two workers have made the same gather calls, as far as both have got
GathersAligned ==
    \A r \in Workers, w \in Workers :
        \A n \in 1..Len(wlog[r]) : n <= Len(wlog[w]) => wlog[w][n] = wlog[r][n]

\* no worker waits in a gather that some other worker will never reach
NoGatherBlocked ==
    \A r \in Workers :
        wpc[r] \in {"train_gather", "nll_gather", "av_rank_gather"} =>
            \A w \in Workers :
                Len(wlog[w]) < Len(wlog[r]) => wpc[w] \notin {"finished", "no_data", "raised"}

\* C5: on the same configuration and the same numbers of train and dev
\* batches all workers issue the same sequence of gather calls, whatever
\* their rank, the save flag and the best-checkpoint decision, so that no
\* worker blocks in a gather another worker never reaches, and every worker
\* eventually reaches the finished state.
C5_SameGathersAndAllFinish ==
    /\ [](GathersAligned /\ NoGatherBlocked)
    /\ <>(\A r \in Workers : Returned(r))

\* the part of C5 about the gather calls alone
C5_GatherDiscipline == GathersAligned /\ NoGatherBlocked

C5_Reached ==
    /\ \A r \in Workers : wpc[r] = "finished"
    /\ cfg.dev_datasets
    /\ cfg.eval_during_epoch
    /\ wwrites[1] >= 1
    /\ Len(wlog[1]) > cfg.num_train_epochs * cfg.max_iterations

\* ------------------------------------------------- validate_average_rank
\* A score row is one query's similarity scores over the P passages the
\* worker encoded (s[p] for passage index p - 1) with the index of its gold
\* passage (an entry of positive_idx_per_question, 0-based).

RECURSIVE SortIndices(_, _)
\* torch.sort(scores, dim=1, descending=True) on one row: the passage
\* indices (0-based) of the passages in rest, highest score first
SortIndices(s, rest) ==
    IF rest = {} THEN << >>
    ELSE LET top == CHOOSE a \in rest : \A b \in rest : s[b] <= s[a]
         IN <<top - 1>> \o SortIndices(s, rest \ {top})

\* the position as it would be if counted from 1
GoldIdx_OneBased(indices, idx) ==
    CHOOSE k \in 1..Len(indices) : indices[k] = idx

\* (indices[i] == idx).nonzero().item(): the 0-based position of idx
GoldIdx(indices, idx) ==
    (CHOOSE k \in 1..Len(indices) : indices[k] = idx) - 1

\* the rank added for each query of a worker's rows
QueryRanks(rows) ==
    [q \in 1..Len(rows) |->
       GoldIdx(SortIndices(rows[q].s, 1..Len(rows[q].s)), rows[q].gold)]

RECURSIVE SumSeq(_, _)
\* the sum of the first n entries of a sequence of numbers
SumSeq(seq, n) == IF n = 0 THEN 0 ELSE SumSeq(seq, n - 1) + seq[n]

\* [rank, q_num]: what a worker contributes to all_gather_list
LocalStats(rows) == <<SumSeq(QueryRanks(rows), Len(rows)), Len(rows)>>

\* all_gather_list([rank, q_num]): every worker's pair, in rank order
GatherStats(sc) == [k \in 1..Len(sc) |-> LocalStats(sc[k])]

\* the loop over eval_stats as it would be without the test on i
RemoteStat_CountsAll(idx, local_rank, item) == item

\* what the loop over eval_stats adds for the item at position idx
RemoteStat(idx, local_rank, item) ==
    IF idx # local_rank THEN item ELSE <<0, 0>>

RECURSIVE AddRemote(_, _, _)
\* the sums added by the first n items of eval_stats
AddRemote(eval_stats, local_rank, n) ==
    IF n = 0 THEN <<0, 0>>
    ELSE LET p == AddRemote(eval_stats, local_rank, n - 1)
             it == RemoteStat(n - 1, local_rank, eval_stats[n])
         IN <<p[1] + it[1], p[2] + it[2]>>

RECURSIVE Gcd(_, _)
Gcd(a, b) == IF b = 0 THEN a ELSE Gcd(b, a % b)

\* float(rank / q_num), as the fraction in lowest terms
Quotient(rank, q_num) ==
    LET g == Gcd(rank, q_num) IN <<rank \div g, q_num \div g>>

\* validate_average_rank on the worker at place r (from 1)
AverageRank(w, sc, r) ==
    LET ranks == QueryRanks(sc[r])
        local == LocalStats(sc[r])
        eval_stats == GatherStats(sc)
        remote == IF WorldSize(w) > 1
                  THEN AddRemote(eval_stats, w.local_rank[r], Len(eval_stats))
                  ELSE <<0, 0>>
        rank == local[1] + remote[1]
        q_num == local[2] + remote[2]
    IN [ranks |-> ranks, rank |-> rank, q_num |-> q_num,
        av_rank |-> Quotient(rank, q_num)]

NotRun == [ranks |-> << >>, rank |-> 0, q_num |-> 0, av_rank |-> None]

\* one validate_average_rank call on worker r
DoAverageRank(r) ==
    /\ av_rank_out[r] = NotRun
    /\ av_rank_out' = [av_rank_out EXCEPT ![r] = AverageRank(world, scores, r)]
    /\ UNCHANGED <<cfg, run, pc, trainer, loop, files, val, lossvars, scores,
                   enc, distvars>>

\* the rows of distinct scores over n passages, with every gold passage
ScoreRows(n) ==
    {[s |-> f, gold |-> g] :
        f \in {h \in [1..n -> 1..n] : \A a, b \in 1..n : a # b => h[a] # h[b]},
        g \in 0..(n - 1)}

\* two rows over three passages: the gold passage scored highest, and lowest
SampleRows == {[s |-> <<3, 1, 2>>, gold |-> 0], [s |-> <<2, 3, 1>>, gold |-> 2]}

\* what a worker can hold: alone, one query over up to MaxP passages; in
\* a group, up to MaxQ queries out of the sample rows
WorkerRows(k) ==
    IF k = 1 THEN {<<row>> : row \in UNION {ScoreRows(n) : n \in 1..MaxP}}
    ELSE UNION {[1..n -> SampleRows] : n \in 1..MaxQ}

InitRank ==
    /\ TrainerIdle
    /\ DistIdle
    /\ world \in Worlds
    /\ batch = << >>
    /\ loss_args = << >>
    /\ gather_calls = << >>
    /\ scores \in [1..WorldSize(world) -> WorkerRows(WorldSize(world))]
    /\ av_rank_out = [r \in 1..WorldSize(world) |-> NotRun]
    /\ enc = << >>

NextRank == \E r \in 1..WorldSize(world) : DoAverageRank(r)

SpecRank == InitRank /\ [][NextRank]_vars

\* validate_average_rank has returned on worker r
Ranked(r) == av_rank_out[r] # NotRun

\* number of passages of the row scored strictly higher than its gold passage
ScoredHigher(row) ==
    Cardinality({p \in 1..Len(row.s) : row.s[p] > row.s[row.gold + 1]})

\* C17: the rank added for each query is the 0-based position of its gold
\* passage in the query's scores sorted in descending order: with P
\* candidate passages and distinct scores it is the number of passages scored
\* strictly higher than the gold passage, 0 when the gold passage scores
\* highest, P-1 when it scores lowest, and always in 0..P-1.
C17_RankIsZeroBasedPosition ==
    \A r \in Workers : Ranked(r) =>
        /\ Len(av_rank_out[r].ranks) = Len(scores[r])
        /\ \A q \in 1..Len(scores[r]) :
             LET row == scores[r][q]
                 P == Len(row.s)
                 rank == av_rank_out[r].ranks[q]
             IN /\ rank = ScoredHigher(row)
                /\ rank \in 0..(P - 1)
                /\ (\A p \in 1..P : row.s[p] <= row.s[row.gold + 1]) => rank = 0
                /\ (\A p \in 1..P : row.s[p] >= row.s[row.gold + 1]) => rank = P - 1

\* a single query whose gold passage scores lowest of three or more
C17_Witness ==
    /\ WorldSize(world) = 1
    /\ Ranked(1)
    /\ Len(scores[1][1].s) >= 3
    /\ scores[1][1].gold = 1
    /\ av_rank_out[1].ranks[1] = Len(scores[1][1].s) - 1

\* the sums over all workers of the local rank sums and query counts
RECURSIVE GlobalStats(_)
GlobalStats(n) ==
    IF n = 0 THEN <<0, 0>>
    ELSE LET p == GlobalStats(n - 1)
             l == LocalStats(scores[n])
         IN <<p[1] + l[1], p[2] + l[2]>>

\* C18: in multi-worker mode every worker returns the same average rank,
\* (sum over all workers of the local rank sums) / (sum over all workers of
\* the local query counts): its own contribution counted exactly once and
\* every other worker's exactly once.
C18_GlobalAverageRank ==
    \A r \in Workers : (WorldSize(world) > 1 /\ Ranked(r)) =>
        LET g == GlobalStats(WorldSize(world))
        IN /\ av_rank_out[r].rank = g[1]
           /\ av_rank_out[r].q_num = g[2]
           /\ av_rank_out[r].av_rank = Quotient(g[1], g[2])
           /\ \A w \in Workers : Ranked(w) =>
                av_rank_out[w].av_rank = av_rank_out[r].av_rank

\* all workers have returned; they hold different numbers of queries and
\* different rank sums
C18_Witness ==
    /\ WorldSize(world) > 1
    /\ \A r \in Workers : Ranked(r)
    /\ Len(scores[1]) # Len(scores[2])
    /\ LocalStats(scores[1])[1] > LocalStats(scores[2])[1]
    /\ LocalStats(scores[2])[1] > 0
    /\ av_rank_out[1].av_rank = av_rank_out[2].av_rank

\* ------------------------------------------ _encode_questions_and_passages
\* the number of queries of the batch the loop is at: dev_batch_size, the
\* last batch of the iterator holding what is left
BatchSize(e) ==
    IF e.i = e.batches - 1 THEN e.last_batch_size ELSE e.dev_batch_size

\* the passages of one query in the batch: its positive, then its negatives
PassagesPer(e) == 1 + e.negatives

\* biencoder_input.is_positive: the index in the batch of the positive
\* passage of query k (from 1)
IsPositive(e, k) == (k - 1) * PassagesPer(e)

\* if j == 0 and cfg.n_gpu > 1 and q_ids.size(0) == 1: continue
SkipsFirstSubBatch(e) == e.n_gpu > 1 /\ BatchSize(e) = 1

\* the query vectors one dev batch adds to q_represenations: with n_gpu > 1
\* the sub-batch holding the queries is skipped when there is one query
QueriesAdded(e) == IF SkipsFirstSubBatch(e) THEN 0 ELSE BatchSize(e)

\* the query vectors added, each known by its batch and its place in it
QVecsAdded(e) ==
    IF SkipsFirstSubBatch(e) THEN << >>
    ELSE [k \in 1..BatchSize(e) |-> <<e.i, k>>]

\* the passage vectors added, each known by its batch and its index in it:
\* all sub-batches of the batch's passages, but a skipped first one
CtxAdded(e) ==
    LET nctx == BatchSize(e) * PassagesPer(e)
        first == IF ~SkipsFirstSubBatch(e) THEN 0
                 ELSE IF e.sub_batch_size < nctx THEN e.sub_batch_size ELSE nctx
    IN [n \in 1..(nctx - first) |-> <<e.i, first + n - 1>>]

\* positive_idx_per_question.extend([total_ctxs + v for v in is_positive]),
\* each entry with the query it is recorded for
PosAdded(e) ==
    [k \in 1..BatchSize(e) |->
       [idx |-> Len(e.ctx) + IsPositive(e, k), batch |-> e.i, k |-> k]]

\* len(q_represenations) > cfg.train.val_av_rank_max_qs / self.distributed_factor
OverMaxQs(e, factor) == e.q * factor > e.val_av_rank_max_qs

\* one pass of the loop over the dev batches: the break, or the encoding of
\* the batch
EncodeBatch ==
    /\ enc.at = "loop"
    /\ enc.i < enc.batches
    /\ enc' = IF OverMaxQs(enc, WorldSize(world))
              THEN [enc EXCEPT !.at = "concat"]
              ELSE [enc EXCEPT !.i = @ + 1,
                               !.q = @ + QueriesAdded(enc),
                               !.qvecs = @ \o QVecsAdded(enc),
                               !.ctx = @ \o CtxAdded(enc),
                               !.pos = @ \o PosAdded(enc)]
    /\ UNCHANGED <<cfg, run, pc, trainer, loop, files, val, lossvars, scores,
                   av_rank_out, distvars>>

\* the iterator is exhausted
EncodeExhausted ==
    /\ enc.at = "loop"
    /\ enc.i >= enc.batches
    /\ enc' = [enc EXCEPT !.at = "concat"]
    /\ UNCHANGED <<cfg, run, pc, trainer, loop, files, val, lossvars, scores,
                   av_rank_out, distvars>>

\* torch.cat of the collected vectors, which raises on an empty list
EncodeReturn ==
    /\ enc.at = "concat"
    /\ enc' = [enc EXCEPT !.at = IF enc.q = 0 \/ enc.ctx = << >>
                                  THEN "raised" ELSE "returned"]
    /\ UNCHANGED <<cfg, run, pc, trainer, loop, files, val, lossvars, scores,
                   av_rank_out, distvars>>

InitEncode ==
    /\ TrainerIdle
    /\ DistIdle
    /\ world \in Worlds
    /\ batch = << >>
    /\ loss_args = << >>
    /\ gather_calls = << >>
    /\ scores = << >>
    /\ av_rank_out = << >>
    /\ enc \in {e \in [val_av_rank_max_qs : 0..MaxQs, dev_batch_size : 1..MaxQ,
                        last_batch_size : 1..MaxQ, negatives : {0, 1},
                        sub_batch_size : {1, 2}, n_gpu : {1, 2},
                        batches : 0..MaxDevBatches, i : {0}, q : {0},
                        qvecs : {<< >>}, ctx : {<< >>}, pos : {<< >>},
                        at : {"loop"}] :
                  e.last_batch_size <= e.dev_batch_size}

NextEncode == EncodeBatch \/ EncodeExhausted \/ EncodeReturn

SpecEncode == InitEncode /\ [][NextEncode]_vars

\* C19: the number of held-out queries encoded for average-rank validation
\* on a worker never exceeds val_av_rank_max_qs divided by the number of
\* workers, for any dev batch size and any number of dev batches.
C19_QueriesWithinMax ==
    enc.q * WorldSize(world) <= enc.val_av_rank_max_qs

\* three batches of one query are encoded under a maximum of two
C19_Overshoot ==
    /\ WorldSize(world) = 1
    /\ enc.val_av_rank_max_qs = 2
    /\ enc.dev_batch_size = 1
    /\ enc.at = "returned"
    /\ enc.q = 3

\* C25: after _encode_questions_and_passages has processed any sequence of
\* dev batches, the number of encoded query vectors equals the number of
\* recorded positive indices (the assertion in validate_average_rank never
\* fails), and each recorded positive index is the position, in the
\* concatenated list of encoded passages, of that query's positive passage;
\* for every n_gpu setting and every batch size, a batch holding a single
\* query when n_gpu > 1 included.
C25_QueriesMatchPositives ==
    /\ Len(enc.qvecs) = Len(enc.pos)
    /\ enc.q = Len(enc.qvecs)
    /\ \A n \in 1..Len(enc.pos) :
         LET p == enc.pos[n]
         IN /\ enc.qvecs[n] = <<p.batch, p.k>>
            /\ p.idx + 1 \in 1..Len(enc.ctx)
            /\ enc.ctx[p.idx + 1] = <<p.batch, (p.k - 1) * PassagesPer(enc)>>

\* the function returns with fewer query vectors than positive indices
C25_AssertionFails ==
    /\ enc.at = "returned"
    /\ enc.n_gpu > 1
    /\ enc.dev_batch_size = 2
    /\ enc.last_batch_size = 1
    /\ Len(enc.qvecs) < Len(enc.pos)

====
